---- MODULE Spec2Model ----
(***************************************************************************)
(* Model of the Modbus RTU <-> TCP proxy of                                *)
(* "modbus_rtu/ESP32 Modbus Proxy/src/main.cpp": the client registry, the  *)
(* request forwarder (handleWiFiClients), the silence-based frame          *)
(* assembler (handleModbusRTU) and the classifier / broadcaster            *)
(* (processRTUResponse), driven by loop().                                 *)
(*                                                                         *)
(* Time is millis(), in milliseconds.  A serial byte is represented by its *)
(* arrival number (1 for the first byte that ever arrived, 2 for the       *)
(* second, ...): the handlers never look at a byte's value, they only move *)
(* it.  A client byte is the pair <<request number, position>>.            *)
(* millis() is read once per handler pass.                                 *)
(***************************************************************************)
EXTENDS Integers, Sequences, FiniteSets, TLC

\* ---- program constants ------------------------------------------------
MAX_CLIENTS == 4
MODBUS_TIMEOUT_MS == 2
BUFFER_SIZE == 256
MAX_FRAME_TIME == 500
RESPONSE_WINDOW == 5000
SERIAL_BAUD_RATE == 19200
\* Serial.begin(SERIAL_BAUD_RATE): 8N1, a start bit, eight data bits, a stop bit
FrameBits == 10

\* ---- bounds of the environment ------------------------------------------
\* the number of events of the environment (clock, serial line, peers) in a run
MaxEvents == 5

\* amounts by which the clock moves between two observations of the model
Deltas == {1, 2, MAX_FRAME_TIME + 1, RESPONSE_WINDOW + 1}
\* sizes of the chunks a client sends
ReqSizes == {1, BUFFER_SIZE + 1}
\* lengths of the back-to-back transmissions of the inverter
TransmitSizes == {4, BUFFER_SIZE + 1}
\* the milliseconds n bytes take on the line at SERIAL_BAUD_RATE
TransmitTime(n) == (n * FrameBits * 1000) \div SERIAL_BAUD_RATE

Slots == 0 .. (MAX_CLIENTS - 1)
NoClient == 0
Conns == 1 .. (MaxEvents + 1)

Min(a, b) == IF a < b THEN a ELSE b

VARIABLES
  \* program state (globals of main.cpp)
  clients, buffer, lastByteTime, frameInProgress, frameStartTime,
  waitingForTcpResponse, lastTcpRequestTime,
  \* environment
  now, serialRx, open, inbound, backlog, nextConn,
  \* what the last handler pass did: log events, Serial.write calls,
  \* client write calls and their return values
  log, serialTx, out, written,
  \* history
  nEvents, nSerial, nRequests, lastArrival, groupStart, emittedUpTo, armed,
  missedSinceFwd, rxSinceFwd, framesSinceFwd, firstByteTime, readAtFwd,
  tickedNow, dense

progVars == <<clients, buffer, lastByteTime, frameInProgress, frameStartTime,
              waitingForTcpResponse, lastTcpRequestTime>>
envVars == <<now, serialRx, open, inbound, backlog, nextConn>>
obsVars == <<log, serialTx, out, written>>
histVars == <<nEvents, nSerial, nRequests, lastArrival, groupStart, emittedUpTo, armed,
              missedSinceFwd, rxSinceFwd, framesSinceFwd, firstByteTime, readAtFwd,
              tickedNow, dense>>
vars == <<progVars, envVars, obsVars, histVars>>

bufferIndex == Len(buffer)

Event(e, k, b, s, t) == [ev |-> e, kind |-> k, bytes |-> b, slot |-> s, at |-> t]

NoOut == [i \in Slots |-> <<>>]
NoWritten == [i \in Slots |-> 0]

\* ---- client registry ------------------------------------------------------
\* clients[i] (operator bool): the slot holds a connection
Occupied(c) == c # NoClient

\* clients[i] && clients[i].connected()
IsLive(c, op) == Occupied(c) /\ c \in op

\* !clients[i] || !clients[i].connected()
Reusable(c, op) == ~Occupied(c) \/ c \notin op

\* a full registry gives up slot 0 instead of refusing
FreeSlotsEvict(cl, op) ==
  IF {i \in Slots : Reusable(cl[i], op)} = {} THEN {0}
  ELSE {i \in Slots : Reusable(cl[i], op)}

FreeSlots(cl, op) == {i \in Slots : Reusable(cl[i], op)}

\* the search for a slot run from the last slot down
HighestSlot(S) == CHOOSE i \in S : \A j \in S : i >= j

\* the first slot the accept loop finds, going up from slot 0
LowestSlot(S) == CHOOSE i \in S : \A j \in S : i <= j

\* the accept block of handleWiFiClients
AcceptClient(s, newClient, op, t) ==
  IF newClient = NoClient \/ FreeSlots(s.clients, op) = {}
  THEN s
  ELSE LET i == LowestSlot(FreeSlots(s.clients, op))
       IN [s EXCEPT !.clients[i] = newClient,
                    !.log = Append(@, Event("connected", "", <<>>, i, t))]

\* ---- request path -----------------------------------------------------------
\* a forward that leaves the accumulated bytes in the buffer
ArmTrackerKeepBuffer(s, t) ==
  [s EXCEPT !.frameInProgress = TRUE,
            !.frameStartTime = t,
            !.waitingForTcpResponse = TRUE,
            !.lastTcpRequestTime = t]

\* "Set frame tracking for response" at the end of the forward
ArmTracker(s, t) ==
  [s EXCEPT !.frameInProgress = TRUE,
            !.frameStartTime = t,
            !.buffer = <<>>,
            !.waitingForTcpResponse = TRUE,
            !.lastTcpRequestTime = t]

\* a forward that writes one byte less than it read
ForwardRequestShort(s, i, t) ==
  LET c == s.clients[i]
      bytesAvailable == Len(s.inbound[c])
      bytesToRead == Min(bytesAvailable, BUFFER_SIZE)
      tcpBuffer == SubSeq(s.inbound[c], 1, bytesToRead)
      bytesRead == Len(tcpBuffer)
  IN IF bytesRead > 0
     THEN ArmTracker([s EXCEPT !.inbound[c] = SubSeq(@, bytesToRead + 1, bytesAvailable),
                               !.serialTx = Append(@, SubSeq(tcpBuffer, 1, bytesRead - 1)),
                               !.log = Append(@, Event("request", "", tcpBuffer, i, t))],
                     t)
     ELSE s

\* the body of "if (clients[i].available())"
ForwardRequest(s, i, t) ==
  LET c == s.clients[i]
      bytesAvailable == Len(s.inbound[c])
      bytesToRead == Min(bytesAvailable, BUFFER_SIZE)
      tcpBuffer == SubSeq(s.inbound[c], 1, bytesToRead)
      bytesRead == Len(tcpBuffer)
  IN IF bytesRead > 0
     THEN ArmTracker([s EXCEPT !.inbound[c] = SubSeq(@, bytesToRead + 1, bytesAvailable),
                               !.serialTx = Append(@, tcpBuffer),
                               !.log = Append(@, Event("request", "", tcpBuffer, i, t))],
                     t)
     ELSE s

\* a client whose request finds another one pending is left waiting
ServeClientWhenIdle(s, i, op, t) ==
  IF IsLive(s.clients[i], op)
  THEN IF Len(s.inbound[s.clients[i]]) > 0 /\ ~s.waitingForTcpResponse
       THEN ForwardRequest(s, i, t) ELSE s
  ELSE IF Occupied(s.clients[i])
       THEN [s EXCEPT !.clients[i] = NoClient,
                      !.log = Append(@, Event("disconnected", "", <<>>, i, t))]
       ELSE s

\* one iteration of the "handle existing clients" loop
ServeClient(s, i, op, t) ==
  IF IsLive(s.clients[i], op)
  THEN IF Len(s.inbound[s.clients[i]]) > 0 THEN ForwardRequest(s, i, t) ELSE s
  ELSE IF Occupied(s.clients[i])
       THEN [s EXCEPT !.clients[i] = NoClient,
                      !.log = Append(@, Event("disconnected", "", <<>>, i, t))]
       ELSE s

RECURSIVE ServeClients(_, _, _, _)
ServeClients(s, i, op, t) ==
  IF i >= MAX_CLIENTS THEN s
  ELSE ServeClients(ServeClient(s, i, op, t), i + 1, op, t)

handleWiFiClients(s, newClient, op, t) ==
  ServeClients(AcceptClient(s, newClient, op, t), 0, op, t)

\* ---- frame assembler ----------------------------------------------------------
\* a loop that stores every byte it reads
DrainSerialUnchecked(s, t) ==
  IF s.serialRx = <<>>
  THEN s
  ELSE [s EXCEPT !.serialRx = <<>>,
                 !.buffer = @ \o s.serialRx,
                 !.lastByteTime = t,
                 !.frameInProgress = TRUE,
                 !.frameStartTime = IF s.frameInProgress THEN @ ELSE t]

\* the "while (Serial.available())" loop on the pending bytes: a byte is stored while
\* bufferIndex < BUFFER_SIZE and read and dropped otherwise; every stored byte sets
\* lastByteTime, and the first byte of a frame sets frameInProgress and frameStartTime
DrainSerial(s, t) ==
  LET room == BUFFER_SIZE - Len(s.buffer)
      stored == SubSeq(s.serialRx, 1, Min(Len(s.serialRx), room))
  IN IF stored = <<>>
     THEN [s EXCEPT !.serialRx = <<>>]
     ELSE [s EXCEPT !.serialRx = <<>>,
                    !.buffer = @ \o stored,
                    !.lastByteTime = t,
                    !.frameInProgress = TRUE,
                    !.frameStartTime = IF s.frameInProgress THEN @ ELSE t]

\* timeSinceLastByte >= MODBUS_TIMEOUT_MS || totalFrameTime >= MAX_FRAME_TIME
FrameComplete(timeSinceLastByte, totalFrameTime) ==
  timeSinceLastByte >= MODBUS_TIMEOUT_MS \/ totalFrameTime >= MAX_FRAME_TIME

\* the timeout measured from the end of the response window instead of the forward
ResponseTimedOutLate(s, t) ==
  /\ s.waitingForTcpResponse
  /\ s.frameInProgress
  /\ t - s.frameStartTime > RESPONSE_WINDOW + MAX_FRAME_TIME
  /\ Len(s.buffer) = 0

\* the "check for timeout" condition at the end of handleModbusRTU
ResponseTimedOut(s, t) ==
  /\ s.waitingForTcpResponse
  /\ s.frameInProgress
  /\ t - s.frameStartTime > MAX_FRAME_TIME
  /\ Len(s.buffer) = 0

\* ---- classification and broadcast ----------------------------------------------
\* the classification by the age of the last forward alone
IsHeartbeatByAge(waiting, elapsed) == elapsed > RESPONSE_WINDOW

\* bool isHeartbeat = !waitingForTcpResponse || (millis() - lastTcpRequestTime) > 5000
IsHeartbeat(waiting, elapsed) == ~waiting \/ elapsed > RESPONSE_WINDOW

\* the two branches of "if (isHeartbeat)" taken the other way round
FrameKindSwapped(hb) == IF hb THEN "RESPONSE" ELSE "UNSOLICITED"

\* the branch of "if (isHeartbeat)" that handles the frame
FrameKind(hb) == IF hb THEN "UNSOLICITED" ELSE "RESPONSE"

\* a broadcast that leaves out the connected() test
TargetsOccupied(cl, op) == {i \in Slots : Occupied(cl[i])}

\* the slots both broadcast loops write to
Targets(cl, op) == {i \in Slots : IsLive(cl[i], op)}

\* the per-client log lines of the response branch, in slot order
RECURSIVE WriteLog(_, _, _, _, _)
WriteLog(i, targets, short, len, t) ==
  IF i >= MAX_CLIENTS THEN <<>>
  ELSE (IF i \in targets
        THEN <<Event(IF i \in short THEN "partial" ELSE "sent", "", <<>>, i, t)>>
        ELSE <<>>)
       \o WriteLog(i + 1, targets, short, len, t)

\* the response keeps the request pending
TrackerKept(hb, waiting) == waiting

\* "waitingForTcpResponse = false" at the end of the response branch, and no assignment
\* in the heartbeat branch
TrackerAfter(hb, waiting) == IF hb THEN waiting ELSE FALSE

\* a reset that keeps the bytes of the frame just processed
ResetFrameFlagOnly(s) == [s EXCEPT !.frameInProgress = FALSE]

\* "Reset frame tracking" at the end of processRTUResponse
ResetFrame(s) == [s EXCEPT !.frameInProgress = FALSE, !.buffer = <<>>]

\* short: the slots whose write accepts fewer bytes than the frame holds
processRTUResponse(s, op, short, t) ==
  ResetFrame(
    IF Len(s.buffer) > 0
    THEN LET hb == IsHeartbeat(s.waitingForTcpResponse, t - s.lastTcpRequestTime)
             targets == Targets(s.clients, op)
             len == Len(s.buffer)
         IN [s EXCEPT !.out = [i \in Slots |-> IF i \in targets THEN <<s.buffer>> ELSE <<>>],
                      !.written = [i \in Slots |-> IF i \in targets
                                                   THEN (IF i \in short THEN len - 1 ELSE len)
                                                   ELSE 0],
                      !.log = (@ \o <<Event("frame", FrameKind(hb), s.buffer, -1, t)>>)
                              \o (IF hb THEN <<>> ELSE WriteLog(0, targets, short, len, t)),
                      !.waitingForTcpResponse = TrackerAfter(hb, @)]
    ELSE s)

\* a frame is held back while a request is pending
EmitsWhenIdle(s, t) ==
  /\ s.frameInProgress
  /\ Len(s.buffer) > 0
  /\ ~s.waitingForTcpResponse
  /\ FrameComplete(t - s.lastByteTime, t - s.frameStartTime)

\* the frame is handed to processRTUResponse in this pass
Emits(s, t) ==
  /\ s.frameInProgress
  /\ Len(s.buffer) > 0
  /\ FrameComplete(t - s.lastByteTime, t - s.frameStartTime)

handleModbusRTU(s, op, short, t) ==
  LET s1 == DrainSerial(s, t)
      s2 == IF Emits(s1, t) THEN processRTUResponse(s1, op, short, t) ELSE s1
  IN IF ResponseTimedOut(s2, t)
     THEN [s2 EXCEPT !.log = Append(@, Event("timeout", "", <<>>, -1, t)),
                     !.frameInProgress = FALSE,
                     !.buffer = <<>>,
                     !.waitingForTcpResponse = FALSE]
     ELSE s2

\* ---- the state as one record, for the handlers ------------------------------------
Prog ==
  [clients |-> clients, buffer |-> buffer, lastByteTime |-> lastByteTime,
   frameInProgress |-> frameInProgress, frameStartTime |-> frameStartTime,
   waitingForTcpResponse |-> waitingForTcpResponse,
   lastTcpRequestTime |-> lastTcpRequestTime,
   inbound |-> inbound, serialRx |-> serialRx,
   log |-> <<>>, serialTx |-> <<>>, out |-> NoOut, written |-> NoWritten]

HasEvent(l, e) == \E k \in 1 .. Len(l) : l[k].ev = e
FrameEvents(l) == {l[k] : k \in {j \in 1 .. Len(l) : l[j].ev = "frame"}}

Last(q) == q[Len(q)]

\* every event of the environment has been taken up by a full pass of loop()
Settled ==
  /\ tickedNow
  /\ serialRx = <<>>
  /\ \A i \in Slots : IsLive(clients[i], open) => inbound[clients[i]] = <<>>

Init ==
  /\ clients = [i \in Slots |-> NoClient]
  /\ buffer = <<>>
  /\ lastByteTime = 0
  /\ frameInProgress = FALSE
  /\ frameStartTime = 0
  /\ waitingForTcpResponse = FALSE
  /\ lastTcpRequestTime = 0
  /\ now = 0
  /\ serialRx = <<>>
  /\ open = {}
  /\ inbound = [c \in Conns |-> <<>>]
  /\ backlog = NoClient
  /\ nextConn = 1
  /\ log = <<>>
  /\ serialTx = <<>>
  /\ out = NoOut
  /\ written = NoWritten
  /\ nSerial = 0
  /\ nRequests = 0
  /\ nEvents = 0
  /\ lastArrival = 0
  /\ groupStart = <<>>
  /\ emittedUpTo = 0
  /\ armed = FALSE
  /\ missedSinceFwd = 0
  /\ rxSinceFwd = FALSE
  /\ framesSinceFwd = 0
  /\ firstByteTime = 0
  /\ readAtFwd = 0
  /\ tickedNow = FALSE
  /\ dense = TRUE

\* ---- loop() ------------------------------------------------------------------------
\* One pass of loop(): handleWiFiClients, then handleModbusRTU.
\* gone: the peers that close their connection between the two handlers;
\* short: the slots whose write accepts fewer bytes than the frame holds.
LivePeers == {clients[i] : i \in Targets(clients, open)}

OneOrNone(S) == {{}} \cup {{x} : x \in S}

Loop(gone, short) ==
  \* w: the state handleWiFiClients leaves; s: the state handleModbusRTU leaves
  \E w \in {handleWiFiClients(Prog, backlog, open, now)} :
  LET \* a connection that finds no slot is dropped when newClient goes out of scope
      open1 == IF backlog # NoClient /\ FreeSlots(clients, open) = {}
               THEN open \ {backlog} ELSE open
      open2 == open1 \ gone
  IN
  \E s \in {handleModbusRTU(w, open2, short, now)} :
  LET forwarded == HasEvent(w.log, "request")
      emitted == HasEvent(s.log, "frame")
      frame == CHOOSE e \in FrameEvents(s.log) : TRUE
      timedOut == HasEvent(s.log, "timeout")
  IN /\ gone \subseteq {w.clients[i] : i \in Targets(w.clients, open1)}
     /\ short \subseteq Targets(w.clients, open2)
     /\ gone # {} => emitted
     /\ short # {} => emitted
     /\ clients' = s.clients
     /\ buffer' = s.buffer
     /\ lastByteTime' = s.lastByteTime
     /\ frameInProgress' = s.frameInProgress
     /\ frameStartTime' = s.frameStartTime
     /\ waitingForTcpResponse' = s.waitingForTcpResponse
     /\ lastTcpRequestTime' = s.lastTcpRequestTime
     /\ inbound' = s.inbound
     /\ serialRx' = s.serialRx
     /\ open' = open2
     /\ backlog' = NoClient
     /\ log' = s.log
     /\ serialTx' = s.serialTx
     /\ out' = s.out
     /\ written' = s.written
     /\ armed' = (armed \/ forwarded)
     /\ emittedUpTo' = IF emitted THEN Last(frame.bytes) ELSE emittedUpTo
     /\ framesSinceFwd' = IF emitted THEN Min((IF forwarded THEN 0 ELSE framesSinceFwd) + 1, 2)
                          ELSE IF forwarded THEN 0 ELSE framesSinceFwd
     /\ missedSinceFwd' = IF timedOut THEN Min((IF forwarded THEN 0 ELSE missedSinceFwd) + 1, 2)
                          ELSE IF forwarded THEN 0 ELSE missedSinceFwd
     /\ rxSinceFwd' = ((~forwarded /\ rxSinceFwd) \/ serialRx # <<>>)
     /\ firstByteTime' = IF w.buffer = <<>> /\ serialRx # <<>> THEN now ELSE firstByteTime
     \* the number of serial bytes read before the latest forward
     /\ readAtFwd' = IF forwarded THEN nSerial - Len(serialRx) ELSE readAtFwd
     /\ tickedNow' = TRUE
     /\ UNCHANGED <<now, nextConn, nEvents, nSerial, nRequests, lastArrival, groupStart, dense>>

\* ---- environment -----------------------------------------------------------------------
\* the clock moves on; loop() may or may not have run in the meantime
Advance(d) ==
  /\ nEvents < MaxEvents
  /\ nEvents' = nEvents + 1
  /\ now' = now + d
  /\ tickedNow' = FALSE
  /\ dense' = (dense /\ d = 1 /\ Settled)
  /\ UNCHANGED <<progVars, serialRx, open, inbound, backlog, nextConn, obsVars,
                 nSerial, nRequests, lastArrival, groupStart, emittedUpTo, armed, missedSinceFwd,
                 rxSinceFwd, framesSinceFwd, firstByteTime, readAtFwd>>

\* the inverter puts one more byte on the RS485 line
SerialArrive ==
  /\ nEvents < MaxEvents
  /\ nEvents' = nEvents + 1
  /\ nSerial' = nSerial + 1
  /\ serialRx' = Append(serialRx, nSerial + 1)
  /\ lastArrival' = now
  /\ groupStart' = Append(groupStart, nSerial = 0 \/ now - lastArrival >= MODBUS_TIMEOUT_MS)
  /\ UNCHANGED <<progVars, now, open, inbound, backlog, nextConn, obsVars,
                 nRequests, emittedUpTo, armed, missedSinceFwd,
                 rxSinceFwd, framesSinceFwd, firstByteTime, readAtFwd,
                 tickedNow, dense>>

\* the inverter sends n bytes back to back, which takes TransmitTime(n); loop() does not
\* run meanwhile.  The first byte follows the previous one by now - lastArrival.
Transmit(n) ==
  /\ nEvents < MaxEvents
  /\ nEvents' = nEvents + 1
  /\ nSerial' = nSerial + n
  /\ serialRx' = serialRx \o [k \in 1 .. n |-> nSerial + k]
  /\ now' = now + TransmitTime(n)
  /\ lastArrival' = now + TransmitTime(n)
  /\ groupStart' = groupStart \o [k \in 1 .. n |->
                       k = 1 /\ (nSerial = 0 \/ now - lastArrival >= MODBUS_TIMEOUT_MS)]
  /\ tickedNow' = FALSE
  /\ dense' = FALSE
  /\ UNCHANGED <<progVars, open, inbound, backlog, nextConn, obsVars,
                 nRequests, emittedUpTo, armed, missedSinceFwd,
                 rxSinceFwd, framesSinceFwd, firstByteTime, readAtFwd>>

\* a peer connects to the listening port
Connect ==
  /\ nEvents < MaxEvents
  /\ nEvents' = nEvents + 1
  /\ backlog = NoClient
  /\ backlog' = nextConn
  /\ open' = open \cup {nextConn}
  /\ nextConn' = nextConn + 1
  /\ UNCHANGED <<progVars, now, serialRx, inbound, obsVars,
                 nSerial, nRequests, lastArrival, groupStart, emittedUpTo, armed, missedSinceFwd,
                 rxSinceFwd, framesSinceFwd, firstByteTime, readAtFwd,
                 tickedNow, dense>>

\* the peer in slot i sends n bytes
ClientSend(i, n) ==
  /\ nEvents < MaxEvents
  /\ nEvents' = nEvents + 1
  /\ IsLive(clients[i], open)
  /\ nRequests' = nRequests + 1
  /\ inbound' = [inbound EXCEPT ![clients[i]] =
                   @ \o [k \in 1 .. n |-> <<nRequests + 1, k>>]]
  /\ UNCHANGED <<progVars, now, serialRx, open, backlog, nextConn, obsVars,
                 nSerial, lastArrival, groupStart, emittedUpTo, armed, missedSinceFwd,
                 rxSinceFwd, framesSinceFwd, firstByteTime, readAtFwd,
                 tickedNow, dense>>

\* the peer in slot i closes its connection
Disconnect(i) ==
  /\ nEvents < MaxEvents
  /\ nEvents' = nEvents + 1
  /\ IsLive(clients[i], open)
  /\ open' = open \ {clients[i]}
  /\ UNCHANGED <<progVars, now, serialRx, inbound, backlog, nextConn, obsVars,
                 nSerial, nRequests, lastArrival, groupStart, emittedUpTo, armed, missedSinceFwd,
                 rxSinceFwd, framesSinceFwd, firstByteTime, readAtFwd,
                 tickedNow, dense>>

Next ==
  \/ \E gone \in OneOrNone(LivePeers), short \in OneOrNone(Targets(clients, open)) :
        Loop(gone, short)
  \/ \E d \in Deltas : Advance(d)
  \/ SerialArrive
  \/ Connect
  \/ \E i \in Slots, n \in ReqSizes : ClientSend(i, n)
  \/ \E i \in Slots : Disconnect(i)

Spec == Init /\ [][Next]_vars

\* the serial side alone: no peer ever connects, the inverter sends runs of bytes
NextSerial ==
  \/ Loop({}, {})
  \/ \E d \in Deltas : Advance(d)
  \/ \E n \in TransmitSizes : Transmit(n)

SpecSerial == Init /\ [][NextSerial]_vars

\* the last stored byte is MODBUS_TIMEOUT_MS old
SilenceReached == now - lastByteTime >= MODBUS_TIMEOUT_MS

\* millis() moves on by itself while a frame sits in the buffer and its silence has not
\* been reached; from then on it is for loop() to act
Tick ==
  /\ buffer # <<>>
  /\ ~SilenceReached
  /\ now' = now + 1
  /\ tickedNow' = FALSE
  /\ dense' = (dense /\ Settled)
  /\ UNCHANGED <<progVars, serialRx, open, inbound, backlog, nextConn, obsVars,
                 nEvents, nSerial, nRequests, lastArrival, groupStart, emittedUpTo, armed,
                 missedSinceFwd, rxSinceFwd, framesSinceFwd, firstByteTime, readAtFwd>>

\* a pass of loop() made while a frame sits in the buffer with its silence reached
Flush == buffer # <<>> /\ SilenceReached /\ Loop({}, {})

NextLive ==
  \/ Loop({}, {})
  \/ SerialArrive
  \/ Connect
  \/ \E i \in Slots : ClientSend(i, 1)
  \/ Advance(RESPONSE_WINDOW + 1)
  \/ Tick

\* loop() is called again and again by the Arduino core, and time does not stand still
SpecLive == Init /\ [][NextLive]_vars /\ WF_vars(Flush) /\ WF_vars(Tick)

\* ==== properties ===========================================================================
\* a step of loop(): every step of the environment counts as an event
LoopStep == nEvents' = nEvents /\ now' = now

TimeoutEvents(l) == {l[k] : k \in {j \in 1 .. Len(l) : l[j].ev = "timeout"}}

\* the serial bytes that arrived and were not yet emitted in a frame
Unemitted == [k \in 1 .. (nSerial - emittedUpTo) |-> emittedUpTo + k]

\* f holds exactly the bytes of one group of the arrival sequence, in order
IsGroup(f) ==
  /\ f = [k \in 1 .. Len(f) |-> f[1] + k - 1]
  /\ groupStart[f[1]]
  /\ \A k \in 2 .. Len(f) : ~groupStart[f[k]]
  /\ (Last(f) = nSerial \/ groupStart[Last(f) + 1])

\* C1: with loop() passing at every millisecond and after every event, the bytes that
\* arrived and were not emitted yet are all still pending in arrival order, and every
\* emitted frame holds exactly the bytes of one group (bytes less than
\* MODBUS_TIMEOUT_MS apart), whatever the state of the request tracker.
C1_OneFramePerGroup ==
  dense => /\ buffer \o serialRx = Unemitted
           /\ \A e \in FrameEvents(log) : IsGroup(e.bytes)

\* C2: the first frame completed after a forward at T is a RESPONSE when it completes
\* less than RESPONSE_WINDOW after T and UNSOLICITED when it completes more than
\* RESPONSE_WINDOW after T.
C2_ClassifiedByWindow ==
  \A e \in FrameEvents(log) :
    (armed /\ framesSinceFwd = 1) =>
      /\ (e.at - lastTcpRequestTime < RESPONSE_WINDOW => e.kind = "RESPONSE")
      /\ (e.at - lastTcpRequestTime > RESPONSE_WINDOW => e.kind = "UNSOLICITED")

\* C3: a pass of loop() that completes a frame writes it exactly once, with the bytes
\* accumulated for it, to every slot that is occupied and connected at the broadcast and
\* to no other slot; a pass that completes no frame writes nothing; and a slot whose peer
\* was disconnected before the pass no longer holds that peer after it.
C3_Broadcast ==
  LET pending == (IF HasEvent(log', "request") THEN <<>> ELSE buffer) \o serialRx
      accumulated == SubSeq(pending, 1, Min(Len(pending), BUFFER_SIZE))
  IN LoopStep =>
       /\ \A e \in FrameEvents(log') : e.bytes = accumulated
       /\ \A i \in Slots :
            out'[i] = IF /\ FrameEvents(log') # {}
                         /\ clients'[i] # NoClient
                         /\ clients'[i] \in open'
                      THEN <<accumulated>> ELSE <<>>
       /\ \A i \in Slots :
            (clients[i] # NoClient /\ clients[i] \notin open) => clients'[i] # clients[i]

C3_BroadcastToLiveSlots == [][C3_Broadcast]_vars

\* a frame went to a connected slot and not to a slot whose peer had left
C3_Witness ==
  \E e \in FrameEvents(log) : \E i, j \in Slots :
    /\ out[i] = <<e.bytes>>
    /\ clients[j] # NoClient /\ clients[j] \notin open
    /\ out[j] = <<>>

\* C4: a pass of loop() that finds a new connection while all MAX_CLIENTS slots hold
\* connected peers registers nothing, prunes nothing and leaves every slot as it was (the
\* new connection is dropped); no connection is ever held by two slots.
C4_Refusal ==
  (LoopStep /\ backlog # NoClient
     /\ \A i \in Slots : clients[i] # NoClient /\ clients[i] \in open)
  => /\ clients' = clients
     /\ \A k \in 1 .. Len(log') : log'[k].ev \notin {"connected", "disconnected"}
     /\ backlog \notin open'
     /\ backlog' = NoClient

C4_FullRegistryRefuses ==
  [][C4_Refusal /\ \A i, j \in Slots :
                     (clients'[i] # NoClient /\ clients'[i] = clients'[j]) => i = j]_vars

\* five connections were attempted; the first four hold the slots, the fifth was dropped
C4_Witness ==
  /\ \A i \in Slots : clients[i] = i + 1 /\ clients[i] \in open
  /\ nextConn = MAX_CLIENTS + 2
  /\ backlog = NoClient
  /\ (MAX_CLIENTS + 1) \notin open

\* C5: once a request was forwarded at T, no serial byte was read or is pending since
\* and no later request was forwarded, a pass of loop() at a time >= T +
\* RESPONSE_WINDOW + 1 leaves exactly one missed-response event since the forward and
\* the tracker idle; at no time are there two such events for one forward.
C5_MissedResponseOnce ==
  (armed /\ ~rxSinceFwd /\ serialRx = <<>>) =>
    /\ missedSinceFwd <= 1
    /\ (tickedNow /\ now - lastTcpRequestTime >= RESPONSE_WINDOW + 1)
         => (missedSinceFwd = 1 /\ ~waitingForTcpResponse)

C5_Witness ==
  /\ armed /\ ~rxSinceFwd /\ serialRx = <<>>
  /\ tickedNow
  /\ now - lastTcpRequestTime >= RESPONSE_WINDOW + 1
  /\ missedSinceFwd = 1
  /\ HasEvent(log, "timeout")

\* C6: a missed-response timeout happens only in a pass at which RESPONSE_WINDOW has
\* elapsed since the forward, and no frame was produced since the forward.
C6_TimeoutOnlyAfterWindow ==
  \A e \in TimeoutEvents(log) :
    /\ e.at - lastTcpRequestTime >= RESPONSE_WINDOW
    /\ framesSinceFwd = 0

\* C7: a frame is emitted only in a pass at which the last stored byte is at least
\* MODBUS_TIMEOUT_MS old or the first byte of the frame is at least MAX_FRAME_TIME old.
C7_EmitOnlyOnSilenceOrCeiling ==
  \A e \in FrameEvents(log) :
    \/ e.at - lastByteTime >= MODBUS_TIMEOUT_MS
    \/ e.at - firstByteTime >= MAX_FRAME_TIME

\* C8: the client-handling pass, when it forwards a request, leaves the buffer, the
\* frame-in-progress flag and the frame start time as they were.
C8_ForwardKeepsAssembler ==
  LET w == handleWiFiClients(Prog, backlog, open, now)
  IN HasEvent(w.log, "request") =>
       /\ w.buffer = buffer
       /\ w.frameInProgress = frameInProgress
       /\ w.frameStartTime = frameStartTime

\* C9: a frame completed more than RESPONSE_WINDOW after the forward is UNSOLICITED and
\* leaves the tracker idle.
C9_LateFrameClearsTracker ==
  \A e \in FrameEvents(log) :
    (armed /\ e.at - lastTcpRequestTime > RESPONSE_WINDOW) =>
      (e.kind = "UNSOLICITED" /\ ~waitingForTcpResponse)

\* C10: after a pass of loop() at a time more than RESPONSE_WINDOW past the forward, the
\* pending-request marker is clear.
C10_NoPendingPastDeadline ==
  (tickedNow /\ now - lastTcpRequestTime > RESPONSE_WINDOW) => ~waitingForTcpResponse

\* C11: after the pass of loop() that classified a frame RESPONSE the tracker is idle
\* (waitingForTcpResponse is false), however many clients are connected and whether or
\* not every write took the whole frame.
C11_ResponseClearsTracker ==
  \A e \in FrameEvents(log) : e.kind = "RESPONSE" => ~waitingForTcpResponse

\* a RESPONSE went to two connected clients, one of which took only part of it
C11_Witness ==
  /\ \E e \in FrameEvents(log) : e.kind = "RESPONSE"
  /\ \E i, j \in Slots : /\ i # j
                         /\ out[i] # <<>> /\ written[i] = Len(out[i][1]) - 1
                         /\ out[j] # <<>> /\ written[j] = Len(out[j][1])

\* C12: a pass of loop() that classifies a frame UNSOLICITED leaves waitingForTcpResponse
\* and lastTcpRequestTime as they were when the frame was handed to the classifier, in
\* every state of the tracker.
C12_Untouched ==
  LET w == handleWiFiClients(Prog, backlog, open, now)
  IN (LoopStep /\ \E e \in FrameEvents(log') : e.kind = "UNSOLICITED")
       => /\ waitingForTcpResponse' = w.waitingForTcpResponse
          /\ lastTcpRequestTime' = w.lastTcpRequestTime
          /\ waitingForTcpResponse' = waitingForTcpResponse
          /\ lastTcpRequestTime' = lastTcpRequestTime

C12_UnsolicitedKeepsTracker == [][C12_Untouched]_vars

\* an UNSOLICITED frame was broadcast while a request was pending, and it still is
C12_Witness ==
  /\ \E e \in FrameEvents(log) : e.kind = "UNSOLICITED"
  /\ \E i \in Slots : out[i] # <<>>
  /\ waitingForTcpResponse

\* C13: a frame that completes in a pass of loop() while waitingForTcpResponse is false
\* is classified UNSOLICITED, never RESPONSE.
C13_Idle ==
  LET w == handleWiFiClients(Prog, backlog, open, now)
  IN (LoopStep /\ ~w.waitingForTcpResponse)
       => \A e \in FrameEvents(log') : e.kind = "UNSOLICITED"

C13_IdleMeansUnsolicited == [][C13_Idle]_vars

\* a frame completed less than RESPONSE_WINDOW after start-up with no request ever
\* forwarded, and was classified UNSOLICITED
C13_Witness ==
  /\ ~armed
  /\ \E e \in FrameEvents(log) :
        e.kind = "UNSOLICITED" /\ e.at - lastTcpRequestTime <= RESPONSE_WINDOW

\* the slots whose connected peer has bytes waiting when the pass begins
Senders == {i \in Slots : IsLive(clients[i], open) /\ inbound[clients[i]] # <<>>}

\* C14: in a pass of loop() that finds client bytes while an earlier request is pending,
\* the bytes read from each such client are written to the serial bus in that same pass,
\* one write per client; after the pass a request is pending and lastTcpRequestTime is
\* the time of this pass (the only recorded forward is the newest).
C14_Rearm ==
  (LoopStep /\ waitingForTcpResponse /\ Senders # {}) =>
    /\ Len(serialTx') = Cardinality(Senders)
    /\ \A i \in Senders : \E k \in 1 .. Len(serialTx') :
          /\ serialTx'[k] # <<>>
          /\ serialTx'[k] \o inbound'[clients[i]] = inbound[clients[i]]
    /\ waitingForTcpResponse'
    /\ lastTcpRequestTime' = now

C14_SecondRequestForwarded == [][C14_Rearm]_vars

\* the second request was forwarded in the last pass, after the first one and before any
\* serial byte or timeout could have cleared the tracker
C14_Witness ==
  /\ nSerial = 0 /\ now > 0 /\ now <= MAX_FRAME_TIME
  /\ Len(serialTx) = 1 /\ serialTx[1][1][1] = 2
  /\ \A c \in Conns : inbound[c] = <<>>
  /\ waitingForTcpResponse
  /\ lastTcpRequestTime = now

\* the bytes a pass took from each sender's connection, in slot order
RECURSIVE ReadChunks(_, _, _, _)
ReadChunks(i, senders, before, after) ==
  IF i >= MAX_CLIENTS THEN <<>>
  ELSE (IF i \in senders
        THEN <<SubSeq(before[clients[i]], 1,
                      Len(before[clients[i]]) - Len(after[clients[i]]))>>
        ELSE <<>>)
       \o ReadChunks(i + 1, senders, before, after)

\* C15: the writes to the serial bus in a pass of loop() are exactly the chunks the pass
\* read from the client connections, byte for byte and in the order read, one write per
\* chunk; a pass that reads nothing from a client writes nothing to the serial bus,
\* whatever else it does (accepting, pruning, emitting a frame, timing out); and nothing
\* outside loop() writes to it.
C15_Verbatim ==
  IF LoopStep
  THEN /\ serialTx' = ReadChunks(0, Senders, inbound, inbound')
       /\ \A k \in 1 .. Len(serialTx') : serialTx'[k] # <<>>
       /\ \A i \in Senders :
             inbound[clients[i]] =
               SubSeq(inbound[clients[i]], 1,
                      Len(inbound[clients[i]]) - Len(inbound'[clients[i]]))
               \o inbound'[clients[i]]
       /\ \A c \in Conns : (\A i \in Senders : clients[i] # c) => inbound'[c] = inbound[c]
  ELSE serialTx' = serialTx

C15_SerialWritesAreClientBytes == [][C15_Verbatim]_vars

\* two clients were read in one pass and their chunks were written in slot order
C15_Witness ==
  /\ Len(serialTx) = 2
  /\ serialTx[1][1][1] # serialTx[2][1][1]
  /\ \E k \in 1 .. Len(log) : log[k].ev = "request" /\ log[k].slot = 0
                                /\ log[k].bytes = serialTx[1]

\* C16: a pass of loop() that finds bytes on a connected client's connection reads all
\* of them and writes them to the serial bus as one unit, however many they are; no byte
\* that was available when the pass began is still unread after it.
C16_ReadsAll ==
  LoopStep =>
    \A i \in Senders :
      /\ inbound'[clients[i]] = <<>>
      /\ \E k \in 1 .. Len(serialTx') : serialTx'[k] = inbound[clients[i]]

C16_AllAvailableBytesForwarded == [][C16_ReadsAll]_vars

\* C17: bufferIndex never exceeds BUFFER_SIZE; a pass of loop() reads every pending
\* serial byte, keeps the first bytes up to BUFFER_SIZE and drops the rest; a frame it
\* emits holds exactly the kept bytes; and a full buffer whose last stored byte is
\* MODBUS_TIMEOUT_MS old is emitted by the pass.
C17_Capacity ==
  LET forwarded == HasEvent(log', "request")
      pending == (IF forwarded THEN <<>> ELSE buffer) \o serialRx
      kept == SubSeq(pending, 1, Min(Len(pending), BUFFER_SIZE))
  IN /\ Len(buffer') <= BUFFER_SIZE
     /\ LoopStep =>
          /\ serialRx' = <<>>
          /\ IF FrameEvents(log') # {}
             THEN buffer' = <<>> /\ \A e \in FrameEvents(log') : e.bytes = kept
             ELSE buffer' = kept
          /\ (Len(buffer) = BUFFER_SIZE /\ ~forwarded
                /\ now - lastByteTime >= MODBUS_TIMEOUT_MS) => FrameEvents(log') # {}

C17_BufferBounded == [][C17_Capacity]_vars

\* a frame of BUFFER_SIZE bytes was emitted although more bytes than that had arrived
\* for it: the later ones were read and dropped
C17_Witness ==
  /\ \E e \in FrameEvents(log) : Len(e.bytes) = BUFFER_SIZE /\ Last(e.bytes) < nSerial
  /\ serialRx = <<>>
  /\ buffer = <<>>

\* C18: a pass of loop() that drops serial bytes because the buffer is full logs a
\* buffer-overflow event, and a frame cut short by the drop is marked as truncated in
\* the log of the pass that emits it.
C18_Observable ==
  LET pending == (IF HasEvent(log', "request") THEN <<>> ELSE buffer) \o serialRx
  IN (LoopStep /\ Len(pending) > BUFFER_SIZE) =>
       /\ HasEvent(log', "overflow")
       /\ FrameEvents(log') # {} => HasEvent(log', "truncated")

C18_OverflowIsLogged == [][C18_Observable]_vars

\* C19: while all the serial bytes that ever arrived form one stream without a gap of
\* MODBUS_TIMEOUT_MS, no request was ever forwarded, and MAX_FRAME_TIME has not passed
\* since start-up (so not since the first byte of the stream either), at most one frame
\* has been emitted, however many bytes arrived.
C19_OneFrameBeforeCeiling ==
  (/\ nSerial > 0
   /\ \A k \in 2 .. nSerial : ~groupStart[k]
   /\ ~armed
   /\ now <= MAX_FRAME_TIME) => framesSinceFwd <= 1

\* C20: a pass of loop() emits a frame only from serial bytes stored since the assembler
\* was last reset: every frame it emits has at least one byte, all of them pending in the
\* pass and newer than every byte emitted before; a pass with no pending byte (none
\* waiting on the line and none in the buffer, or the buffer just cleared by a forward)
\* emits no frame, in every tracker state; and a pass that emits no frame writes nothing
\* to the clients.
C20_Step ==
  LET pending == (IF HasEvent(log', "request") THEN <<>> ELSE buffer) \o serialRx
  IN LoopStep =>
       /\ \A e \in FrameEvents(log') :
             /\ Len(e.bytes) >= 1
             /\ Len(e.bytes) <= Len(pending)
             /\ e.bytes = SubSeq(pending, 1, Len(e.bytes))
             /\ e.bytes[1] > emittedUpTo
       /\ pending = <<>> => FrameEvents(log') = {}
       /\ FrameEvents(log') = {} => \A i \in Slots : out'[i] = <<>>

C20_NoFrameWithoutBytes == [][C20_Step]_vars

\* a pass ran MODBUS_TIMEOUT_MS or more after a forward armed the tracker, no serial byte
\* ever arrived, and the pass emitted nothing: the frame is still marked in progress
C20_Witness ==
  /\ armed /\ waitingForTcpResponse /\ frameInProgress
  /\ nSerial = 0
  /\ tickedNow
  /\ now - lastTcpRequestTime >= MODBUS_TIMEOUT_MS
  /\ FrameEvents(log) = {}
  /\ \A i \in Slots : out[i] = <<>>

\* C21: a pass of loop() in which the write of the frame to a client delivers no byte
\* leaves that client's slot empty, free for the next registration.
C21_Freed ==
  LoopStep =>
    \A i \in Slots :
      (out'[i] # <<>> /\ written'[i] = 0) => clients'[i] = NoClient

C21_FailedWriteFreesSlot == [][C21_Freed]_vars

\* C22: in every broadcast, of a RESPONSE and of an UNSOLICITED frame alike, a write that
\* delivers fewer bytes than the frame holds is logged as a partial write for that slot,
\* the slot keeps its connection, and the frame is written to it only once.
C22_Partial ==
  LoopStep =>
    \A i \in Slots :
      (out'[i] # <<>> /\ written'[i] < Len(out'[i][1])) =>
        /\ \E k \in 1 .. Len(log') : log'[k].ev = "partial" /\ log'[k].slot = i
        /\ clients'[i] = clients[i]
        /\ clients'[i] \in open'
        /\ Len(out'[i]) = 1

C22_PartialWriteLogged == [][C22_Partial]_vars

\* C23: a pass of loop() that finds a new connection while all MAX_CLIENTS slots hold
\* connected peers logs a rejection event for it.
C23_Rejection ==
  (LoopStep /\ backlog # NoClient
     /\ \A i \in Slots : clients[i] # NoClient /\ clients[i] \in open)
  => HasEvent(log', "rejected")

C23_RefusalIsLogged == [][C23_Rejection]_vars

\* C25: a pass of loop() never takes a slot from a connected client; a new connection is
\* stored in the lowest slot that is empty or whose occupant is disconnected, and the
\* accept block changes no other slot; without a new connection, or without such a slot,
\* it changes none; a pass accepts at most one connection.
C25_Accept ==
  LET free == {i \in Slots : clients[i] = NoClient \/ clients[i] \notin open}
      a == AcceptClient(Prog, backlog, open, now)
      accepted == {k \in 1 .. Len(log') : log'[k].ev = "connected"}
  IN LoopStep =>
       /\ Cardinality(accepted) <= 1
       /\ \A i \in Slots : (clients[i] # NoClient /\ clients[i] \in open)
                               => (a.clients[i] = clients[i] /\ clients'[i] = clients[i])
       /\ IF backlog # NoClient /\ free # {}
          THEN \E i \in free :
                 /\ \A j \in free : i <= j
                 /\ a.clients[i] = backlog
                 /\ clients'[i] = backlog
                 /\ \A j \in Slots \ {i} : a.clients[j] = clients[j]
                 /\ \E k \in accepted : log'[k].slot = i
          ELSE a.clients = clients /\ accepted = {}

C25_AcceptKeepsLiveClients == [][C25_Accept]_vars

\* the third connection took slot 0, whose first occupant had disconnected, while the
\* second connection kept slot 1
C25_Witness ==
  /\ clients[0] = 3 /\ clients[1] = 2
  /\ 1 \notin open /\ 2 \in open /\ 3 \in open
  /\ \E k \in 1 .. Len(log) : log[k].ev = "connected" /\ log[k].slot = 0

\* C26: every byte of a frame classified RESPONSE was read from the serial link after the
\* latest forward of a request: no byte read before that forward is part of the frame.
C26_ResponseBytesAreFresh ==
  \A e \in FrameEvents(log) :
    e.kind = "RESPONSE" => \A k \in 1 .. Len(e.bytes) : e.bytes[k] > readAtFwd

\* byte 1 was read into the buffer before the forward and byte 2 after it; the RESPONSE
\* holds byte 2 alone
C26_Witness ==
  /\ readAtFwd = 1
  /\ \E e \in FrameEvents(log) : e.kind = "RESPONSE" /\ e.bytes = <<2>>
  /\ \E i \in Slots : out[i] = <<(<<2>>)>>

\* a pass of loop() just emitted a frame and left the assembler empty
Flushed ==
  /\ FrameEvents(log) # {}
  /\ buffer = <<>>
  /\ ~frameInProgress

\* C24: with loop() called again and again and time advancing, a buffer that holds at
\* least one byte is eventually emptied by a pass that emits a frame, after which
\* bufferIndex = 0 and frameInProgress is false, unless a client request is forwarded
\* first (the frame a pass emits holds exactly the bytes accumulated, see C3).
C24_BufferedBytesAreFlushed ==
  (buffer # <<>>) ~> (Flushed \/ HasEvent(log, "request"))

\* the frame was emitted by the silence rule on a clock that moved by itself: no event of
\* the environment other than the arrival of the byte took place
C24_Witness ==
  /\ nEvents = 1 /\ nSerial = 1
  /\ now = MODBUS_TIMEOUT_MS
  /\ Flushed
  /\ emittedUpTo = 1

====
